---- MODULE Spec2Model ----
(***************************************************************************)
(* A model of the deadfish encoder: the wrapped 32-bit accumulator         *)
(* (Value/Acc), the signed Offset, the instruction Builder, the heuristic  *)
(* synthesizer and the breadth-first encoder.                              *)
(*                                                                         *)
(* TLC's integers are 32-bit signed, so a u32 is kept at its full width as *)
(* two 16-bit limbs <<hi, lo>> (value hi * 2^16 + lo).  An i64 Offset,     *)
(* which here is always a difference of two u32s, is kept as sign and u32  *)
(* magnitude.  usize lengths are plain integers; every length the model    *)
(* materialises is below 2^31.                                             *)
(***************************************************************************)
EXTENDS Integers, Sequences, FiniteSets, TLC

VARIABLES
    debug,      \* build profile: TRUE = debug assertions and overflow checks on
    acc,        \* machine: the accumulator
    raw,        \* machine: the u32 magnitude the accumulator was made from
    prev,       \* machine: the accumulator before the last instruction
    last,       \* machine: the last instruction applied ("none" at the start)
    steps,      \* machine: number of instructions applied
    call,       \* function harness: the last call, [fn, args, ret]
    bld,        \* Builder: [insts, acc]
    b_start,    \* Builder: the accumulator it was created with
    b_calls,    \* Builder: the calls made on it, in order, as <<name, argument>>
    b_panic,    \* Builder: TRUE once a call has panicked
    queue,      \* BfsEncoder: the arena of Nodes (index i of the code is queue[i + 1])
    index,      \* BfsEncoder: the next arena index to dequeue
    visited,    \* BfsEncoder: the visited set
    max_len,    \* BfsEncoder: the bound
    from,       \* encode: its first argument
    to,         \* encode: its second argument
    zero_index,     \* encode: Option of the index of the first node holding 0
    closest_square, \* encode: Option of [i, offset, len]
    pc,         \* encode: "idle" before a call, "loop" in the search, "done" after
    result,     \* encode: [path, optimal, panic] once done
    reused      \* BfsEncoder: TRUE in the calls after the first on this encoder

machine == <<acc, raw, prev, last, steps>>
builder == <<bld, b_start, b_calls, b_panic>>
bfs == <<queue, index, visited, max_len, from, to, zero_index, closest_square, pc, result,
         reused>>
vars == <<debug, machine, call, builder, bfs>>

-----------------------------------------------------------------------------
(* Bounds of the model *)

\* inputs are taken within Span of each landmark magnitude
Span == 3
\* longest instruction run replayed by the machine
MaxSteps == 3
\* largest batch count k handed to saturating_add / saturating_sub, add, sub, offset
MaxK == 6
\* number of calls made on one Builder
MaxCalls == 1
\* longest slice handed to Builder::append
MaxAppend == 1
\* largest count handed to Builder::square
MaxSquares == 3
\* longest program drawn in full
MaxProg == 3
\* deepest exhaustive search for a shortest path from 0
MaxDist == 8
\* how far from a landmark the Values brought to 0 lie
ZeroSpan == 8
\* squarings followed when counting the way to 0 mod 2^32
MaxSquarings == 6
\* longest instruction path the heuristic is asked to write out
MaxPath == 40
\* largest bound an exhaustive search is run with
MaxBound == 2
\* a search with the fuzz target's bound is run for targets within MaxNear
\* instructions of its start
MaxNear == 3
\* the searches start and aim within BfsSpan of their landmarks
BfsSpan == 2

-----------------------------------------------------------------------------
\* `let x = e; Body(x)`: e is evaluated once and its value bound
Let(e, Body(_)) == CHOOSE r \in { Body(x) : x \in {e} } : TRUE

-----------------------------------------------------------------------------
(* u32 arithmetic on limbs *)

Limb == 256 * 256

\* the u32 with value n, for 0 <= n < 2^31
U(n) == <<n \div Limb, n % Limb>>

U32_MAX == <<Limb - 1, Limb - 1>>

Lt(a, b) == a[1] < b[1] \/ (a[1] = b[1] /\ a[2] < b[2])
Le(a, b) == a = b \/ Lt(a, b)

\* the integer value of a u32 below 2^31
ToInt(a) == a[1] * Limb + a[2]
FitsInt(a) == a[1] < Limb \div 2

wrapping_add(a, b) ==
    LET lo == a[2] + b[2]
    IN  <<(a[1] + b[1] + (lo \div Limb)) % Limb, lo % Limb>>

add_overflows(a, b) == a[1] + b[1] + ((a[2] + b[2]) \div Limb) >= Limb

wrapping_sub(a, b) ==
    LET lo     == a[2] - b[2]
        borrow == IF lo < 0 THEN 1 ELSE 0
    IN  <<(a[1] - b[1] - borrow + 2 * Limb) % Limb, (lo + Limb) % Limb>>

u32_saturating_add(a, b) == IF add_overflows(a, b) THEN U32_MAX ELSE wrapping_add(a, b)

u32_saturating_sub(a, b) == IF Lt(a, b) THEN U(0) ELSE wrapping_sub(a, b)

\* the full 32-bit product of two 16-bit limbs, by 8-bit halves
Mul16(x, y) ==
    LET xh == x \div 256
        xl == x % 256
        yh == y \div 256
        yl == y % 256
        p0 == xl * yl
        p1 == xh * yl + xl * yh
        p2 == xh * yh
        low == p0 + (p1 % 256) * 256
    IN  <<p2 + (p1 \div 256) + (low \div Limb), low % Limb>>

wrapping_mul(a, b) ==
    LET ll == Mul16(a[2], b[2])
        hl == Mul16(a[1], b[2])
        lh == Mul16(a[2], b[1])
    IN  <<(ll[1] + hl[2] + lh[2]) % Limb, ll[2]>>

mul_overflows(a, b) ==
    LET ll == Mul16(a[2], b[2])
        hl == Mul16(a[1], b[2])
        lh == Mul16(a[2], b[1])
    IN  \/ (a[1] # 0 /\ b[1] # 0)
        \/ hl[1] # 0
        \/ lh[1] # 0
        \/ ll[1] + hl[2] + lh[2] >= Limb

RECURSIVE tz16(_)
tz16(x) == IF x % 2 = 1 THEN 0 ELSE 1 + tz16(x \div 2)

\* u32::trailing_zeros
trailing_zeros(a) ==
    IF a[2] # 0 THEN tz16(a[2])
    ELSE IF a[1] # 0 THEN 16 + tz16(a[1])
    ELSE 32

RECURSIVE bit_len(_)
bit_len(n) == IF n = 0 THEN 0 ELSE 1 + bit_len(n \div 2)

\* mutation: the leading zeros of n - 1, which rounds log2 up, not down
leading_zeros_of_pred(n) == IF n = 0 THEN 32 ELSE 32 - bit_len(n - 1)

\* u32::leading_zeros of a small count (0..32)
leading_zeros(n) == 32 - bit_len(n)

RECURSIVE isqrt_search(_, _, _)
isqrt_search(a, lo, hi) ==
    IF lo >= hi THEN lo
    ELSE Let((lo + hi + 1) \div 2, LAMBDA mid :
             IF Le(Mul16(mid, mid), a)
             THEN isqrt_search(a, mid, hi)
             ELSE isqrt_search(a, lo, mid - 1))

\* (n as f64).sqrt().floor() and .ceil(): the f64 square root of a u32 is
\* exact on perfect squares and strictly between two integers otherwise
sqrt_floor(a) == isqrt_search(a, 0, Limb - 1)
sqrt_ceil(a)  == Let(sqrt_floor(a), LAMBDA f : IF Mul16(f, f) = a THEN f ELSE f + 1)

-----------------------------------------------------------------------------
(* Option *)

None    == <<>>
Some(x) == <<x>>

-----------------------------------------------------------------------------
(* Inst *)

Inst == {"I", "D", "S", "O", "Blank"}

-----------------------------------------------------------------------------
(* Offset: an i64, as sign and magnitude; Offset(0) is not negative *)

Offset(n) == [neg |-> n < 0, mag |-> U(IF n < 0 THEN 0 - n ELSE n)]

\* Offset(x as i64 - y as i64)
offset_diff(x, y) ==
    IF Le(y, x) THEN [neg |-> FALSE, mag |-> wrapping_sub(x, y)]
    ELSE [neg |-> TRUE, mag |-> wrapping_sub(y, x)]

abs(o) == o.mag
is_negative(o) == o.neg

cmp_signed(self, other) ==
    IF self = other THEN "Equal"
    ELSE IF \/ (self.neg /\ ~other.neg)
            \/ (self.neg /\ other.neg /\ Lt(other.mag, self.mag))
            \/ (~self.neg /\ ~other.neg /\ Lt(self.mag, other.mag))
    THEN "Less"
    ELSE "Greater"

\* impl Ord for Offset; unsigned_abs is the magnitude as a u64
cmp(self, other) ==
    IF self = other THEN "Equal"
    ELSE IF Lt(self.mag, other.mag) \/ (self.mag = other.mag /\ ~is_negative(self))
    THEN "Less"
    ELSE "Greater"

-----------------------------------------------------------------------------
(* Value *)

normalize_no256(n) == IF n = U32_MAX THEN U(0) ELSE n

normalize(n) == IF n = U(256) \/ n = U32_MAX THEN U(0) ELSE n

from_checked_all(n) == Some(n)

from_checked(n) == IF n = normalize(n) THEN Some(n) ELSE None

\* impl From<u32> for Value
ValueFrom(n) == normalize(n)

increment(v) == ValueFrom(wrapping_add(v, U(1)))
decrement(v) == ValueFrom(wrapping_sub(v, U(1)))
square(v)    == ValueFrom(wrapping_mul(v, v))

apply(v, inst) ==
    CASE inst = "I" -> increment(v)
      [] inst = "D" -> decrement(v)
      [] inst = "S" -> square(v)
      [] OTHER      -> v

\* mutation: the inverse is not checked to be a valid Value
apply_inverse_unchecked(v, inst) ==
    CASE inst = "I" -> Some(wrapping_sub(v, U(1)))
      [] inst = "D" -> Some(wrapping_add(v, U(1)))
      [] inst = "S" -> IF sqrt_floor(v) # sqrt_ceil(v) THEN None ELSE Some(U(sqrt_floor(v)))
      [] OTHER      -> Some(v)

\* Value::apply_inverse; the square root of a u32 is exact in an f64
apply_inverse(v, inst) ==
    CASE inst = "I" -> from_checked(wrapping_sub(v, U(1)))
      [] inst = "D" -> from_checked(wrapping_add(v, U(1)))
      [] inst = "S" -> IF sqrt_floor(v) # sqrt_ceil(v) THEN None
                       ELSE from_checked(U(sqrt_floor(v)))
      [] OTHER      -> Some(v)

saturating_add_wrap(v, rhs) ==
    LET add == u32_saturating_add(v, rhs)
    IN  IF (Lt(v, U(256)) /\ Le(U(256), add)) \/ add = U32_MAX THEN U(0) ELSE add

saturating_add(v, rhs) ==
    LET add == u32_saturating_add(v, rhs)
    IN  IF Lt(v, U(256)) /\ Le(U(256), add) THEN U(255)
        ELSE IF add = U32_MAX THEN wrapping_sub(U32_MAX, U(1))
        ELSE add

saturating_sub(v, rhs) ==
    LET sub == u32_saturating_sub(v, rhs)
    IN  IF Lt(U(256), v) /\ Le(sub, U(256)) THEN U(257)
        ELSE IF sub = U(0) /\ v # U(0) THEN U(1)
        ELSE sub

offset_to_swapped(self, other) ==
    IF Lt(self, U(256)) = Lt(other, U(256))
    THEN Some(offset_diff(self, other))
    ELSE None

offset_to(self, other) ==
    IF Lt(self, U(256)) = Lt(other, U(256))
    THEN Some(offset_diff(other, self))
    ELSE None

\* k copies of inst
Repeat(inst, k) == [i \in 1..k |-> inst]

\* the fold of apply over insts[lo..hi], first half then second half
RECURSIVE eval_range(_, _, _, _)
eval_range(insts, lo, hi, a) ==
    IF lo > hi THEN a
    ELSE IF lo = hi THEN apply(a, insts[lo])
    ELSE Let((lo + hi) \div 2, LAMBDA m :
         Let(eval_range(insts, lo, m, a), LAMBDA x :
             eval_range(insts, m + 1, hi, x)))

\* Inst::eval
eval(insts, a) == eval_range(insts, 1, Len(insts), a)

\* impl Add<u32> for Acc
add_u32(v, rhs) ==
    LET add == u32_saturating_add(v, rhs)
    IN  IF (Lt(v, U(256)) /\ Le(U(256), add)) \/ add = U32_MAX THEN U(0) ELSE add

\* impl Sub<u32> for Acc
sub_u32(v, rhs) ==
    LET sub == u32_saturating_sub(v, rhs)
    IN  IF Lt(U(256), v) /\ Le(sub, U(256)) THEN U(0) ELSE sub

\* impl Add<Offset> for Acc
add_offset(v, rhs) ==
    IF ~rhs.neg THEN add_u32(v, abs(rhs)) ELSE sub_u32(v, abs(rhs))

\* mutation: the squares are not normalized
RECURSIVE square_repeat_raw(_, _)
square_repeat_raw(v, count) ==
    IF count = 0 THEN v
    ELSE Let(wrapping_mul(v, v), LAMBDA n :
             IF n = U(0) THEN n ELSE square_repeat_raw(n, count - 1))

RECURSIVE square_repeat(_, _)
square_repeat(v, count) ==
    IF count = 0 THEN v
    ELSE Let(normalize(wrapping_mul(v, v)), LAMBDA n :
             IF n = U(0) THEN n ELSE square_repeat(n, count - 1))

\* [root, offset, panic]: panic is an arithmetic overflow or a failed
\* debug assertion, which only a debug build raises
nearest_sqrt(v) ==
    Let(U(sqrt_floor(v)), LAMBDA floor :
    Let(U(sqrt_ceil(v)), LAMBDA ceil :
    LET floor_diff == wrapping_sub(v, wrapping_mul(floor, floor))
        ceil_sq    == wrapping_mul(ceil, ceil)
        ceil_diff  == wrapping_sub(ceil_sq, v)
        overflow   == mul_overflows(ceil, ceil) \/ Lt(ceil_sq, v)
        take_floor == \/ (Lt(floor_diff, ceil_diff) /\ floor # U(16))
                      \/ ceil = U(16)
                      \/ ceil = U(Limb)
        root == IF take_floor THEN floor ELSE ceil
    IN  [ root   |-> root,
          offset |-> IF take_floor
                     THEN [neg |-> FALSE, mag |-> floor_diff]
                     ELSE [neg |-> ceil_diff # U(0), mag |-> ceil_diff],
          panic  |-> debug /\ (overflow \/ root # normalize(root)) ]))

-----------------------------------------------------------------------------
(* Heuristic synthesizer *)

LOW_16  == (4 + 16) \div 2
LOW_256 == (16 + 256) \div 2
LOW_NEG == wrapping_add(<<Limb \div 2 - 1, Limb - 1>>, U(256 \div 2))

\* <<offset, squares>>
encode_to_0_no_overflow(v) ==
    LET ts == IF Lt(v, U(4)) THEN <<U(0), 0>>
              ELSE IF Lt(v, U(LOW_16)) THEN <<U(4), 2>>
              ELSE IF Lt(v, U(LOW_256)) THEN <<U(16), 1>>
              ELSE IF Lt(v, LOW_NEG) THEN <<U(256), 0>>
              ELSE <<U32_MAX, 0>>
    IN  <<offset_diff(ts[1], v), ts[2]>>

\* mutation: without the special case for the square roots of 256
encode_to_0_overflow_no256(v) ==
    LET tz0 == trailing_zeros(v)
        offset ==
            IF tz0 >= 2 THEN Offset(0)
            ELSE IF tz0 = 1
            THEN (CASE v[2] % 16 = 14 -> Offset(2)
                    [] v[2] % 16 = 2  -> Offset(-2)
                    [] OTHER          -> Offset(0))
            ELSE (CASE v[2] % 256 = 253 -> Offset(3)
                    [] v[2] % 256 = 3   -> Offset(-3)
                    [] OTHER            -> Offset((v[2] % 4) - 2))
        v1 == IF tz0 < 2 THEN add_offset(v, offset) ELSE v
        tz == trailing_zeros(v1)
    IN  <<offset, leading_zeros(tz) - leading_zeros(32)>>

encode_to_0_overflow(v) ==
    LET tz0 == trailing_zeros(v)
        offset ==
            IF tz0 >= 2 THEN Offset(0)
            ELSE IF tz0 = 1
            THEN (CASE v[2] % 16 = 14 -> Offset(2)
                    [] v[2] % 16 = 2  -> Offset(-2)
                    [] OTHER          -> Offset(0))
            ELSE (CASE v[2] % 256 = 253 -> Offset(3)
                    [] v[2] % 256 = 3   -> Offset(-3)
                    [] OTHER            -> Offset((v[2] % 4) - 2))
        v1 == IF tz0 < 2 THEN add_offset(v, offset) ELSE v
        tz == trailing_zeros(v1)
        squares == IF wrapping_mul(v1, v1) = U(256) THEN 1
                   ELSE leading_zeros(tz) - leading_zeros(32)
    IN  <<offset, squares>>

\* mutation: the overflow strategy alone
encode_to_0_overflow_only(v) == encode_to_0_overflow(v)

encode_to_0(v) ==
    Let(encode_to_0_no_overflow(v), LAMBDA r1 :
    Let(encode_to_0_overflow(v), LAMBDA r2 :
    LET len1 == wrapping_add(abs(r1[1]), U(r1[2]))
        len2 == wrapping_add(abs(r2[1]), U(r2[2]))
    IN  IF Lt(len1, len2) \/ (len1 = len2 /\ r1[2] <= r2[2]) THEN r1 ELSE r2))

RECURSIVE encode_from_0_loop(_, _, _)
encode_from_0_loop(v, offsets, len) ==
    IF Le(U(4), v)
    THEN Let(nearest_sqrt(v), LAMBDA r :
             IF r.panic THEN [offsets |-> <<>>, len |-> 0, panic |-> TRUE]
             ELSE Let(<<<<r.offset>> \o offsets, len + ToInt(abs(r.offset)) + 1>>,
                      LAMBDA s : encode_from_0_loop(r.root, s[1], s[2])))
    ELSE [offsets |-> <<Offset(ToInt(v))>> \o offsets,
          len |-> len + ToInt(v),
          panic |-> FALSE]

\* [offsets, len, panic]
encode_from_0(v) == encode_from_0_loop(v, <<>>, 0)

-----------------------------------------------------------------------------
(* Builder: [insts, acc] *)

Builder_new(a) == [insts |-> <<>>, acc |-> a]

from_insts(insts, a) == [insts |-> insts, acc |-> a]

push_repeat(b, inst, count) == [b EXCEPT !.insts = @ \o Repeat(inst, count)]

Builder_append(b, insts) ==
    [insts |-> b.insts \o insts, acc |-> eval(insts, b.acc)]

Builder_push(b, inst) ==
    [insts |-> Append(b.insts, inst), acc |-> apply(b.acc, inst)]

Builder_add(b, x) ==
    [push_repeat(b, "I", ToInt(x)) EXCEPT !.acc = add_u32(b.acc, x)]

Builder_sub(b, x) ==
    [push_repeat(b, "D", ToInt(x)) EXCEPT !.acc = sub_u32(b.acc, x)]

\* mutation: the sign of the offset is read the wrong way round
Builder_offset_flipped(b, offset) ==
    IF is_negative(offset)
    THEN Builder_add(b, abs(offset))
    ELSE Builder_sub(b, abs(offset))

Builder_offset(b, offset) ==
    IF is_negative(offset)
    THEN Builder_sub(b, abs(offset))
    ELSE Builder_add(b, abs(offset))

Builder_square(b, count) ==
    [push_repeat(b, "S", count) EXCEPT !.acc = square_repeat(b.acc, count)]

RECURSIVE offset_squares_rest(_, _)
offset_squares_rest(b, offsets) ==
    IF offsets = <<>> THEN b
    ELSE Let(Builder_push(b, "S"), LAMBDA squared :
         Let(Builder_offset(squared, Head(offsets)), LAMBDA b1 :
         Let(Tail(offsets), LAMBDA rest : offset_squares_rest(b1, rest))))

offset_squares(b, offsets) ==
    IF offsets = <<>> THEN b
    ELSE Let(Builder_offset(b, Head(offsets)), LAMBDA b1 :
             offset_squares_rest(b1, Tail(offsets)))

\* the choice heuristic_encode makes from b.acc to v:
\* [simple, offset, to_0, from_0, len], len the number of instructions
heuristic_plan(a, v) ==
    Let(encode_to_0(a), LAMBDA to_0 :
    Let(encode_from_0(v), LAMBDA from_0 :
    LET simple_offset == offset_to(a, v)
        len_via_0 == ToInt(abs(to_0[1])) + to_0[2] + from_0.len
        simple == /\ simple_offset # None
                  /\ FitsInt(abs(simple_offset[1]))
                  /\ ToInt(abs(simple_offset[1])) <= len_via_0
    IN  [ simple |-> simple,
          offset |-> simple_offset,
          to_0   |-> to_0,
          from_0 |-> from_0,
          len    |-> IF simple THEN ToInt(abs(simple_offset[1])) ELSE len_via_0 ]))

\* [b, panic]: the Builder after heuristic_encode, or a panic
heuristic_encode(b, v) ==
    Let(heuristic_plan(b.acc, v), LAMBDA plan :
        IF plan.from_0.panic THEN [b |-> b, panic |-> TRUE]
        ELSE IF plan.simple
        THEN Let(Builder_offset(b, plan.offset[1]), LAMBDA b1 :
                 [b |-> b1, panic |-> debug /\ b1.acc # v])
        ELSE Let(Builder_offset(b, plan.to_0[1]), LAMBDA at_side :
             Let(Builder_square(at_side, plan.to_0[2]), LAMBDA at_0 :
             Let(offset_squares(at_0, plan.from_0.offsets), LAMBDA b1 :
                 [b |-> b1, panic |-> debug /\ b1.acc # v]))))

\* [b, panic]
push_number(b, n) ==
    Let(heuristic_encode(b, n), LAMBDA r :
        IF r.panic THEN r
        ELSE [b |-> [insts |-> Append(r.b.insts, "O"), acc |-> n], panic |-> FALSE])

\* Inst::encode_number: <<insts>> or None on a panic
encode_number(a, n) ==
    Let(push_number(Builder_new(a), n), LAMBDA r :
        IF r.panic THEN None ELSE Some(r.b.insts))

-----------------------------------------------------------------------------
(* Wrapping square roots of an unsigned integer of bits <= 16 bits *)

wrapping_mul_uN(a, b, bits) == Mul16(a, b)[2] % 2^bits
wrapping_neg_uN(a, bits)    == (2^bits - a) % 2^bits

SQRTS_OF_ONE(bits) == <<1, 2^(bits - 1) - 1, 2^(bits - 1) + 1, 2^bits - 1>>

\* (0..=max).step_by(step)
step_by(max, step) == [k \in 1..(max \div step + 1) |-> (k - 1) * step]

sort_unstable(s) == SortSeq(s, LAMBDA a, b : a < b)

\* mutation: consecutive duplicates stay
dedup_none(s) == s

\* Vec::dedup: of consecutive equal elements the first one stays
dedup(s) ==
    Let(SelectSeq([i \in 1..Len(s) |-> i], LAMBDA i : i = 1 \/ s[i] # s[i - 1]),
        LAMBDA keep : [k \in 1..Len(keep) |-> s[keep[k]]])

is_wrapping_square(x) ==
    IF x = 0 THEN TRUE
    ELSE LET tz == tz16(x)
         IN  tz % 2 = 0 /\ (x \div 2^tz) % 8 = 1

\* the loop `for i in 4..e - 1` of modular_sqrt_odd: [y, panic]
RECURSIVE modular_sqrt_odd_loop(_, _, _, _, _)
modular_sqrt_odd_loop(y, t, i, e, bits) ==
    IF i >= e - 1 THEN [y |-> y, panic |-> FALSE]
    ELSE IF t % 2 # 0
    THEN Let(IF (y \div 2^i) % 2 = 1 THEN y ELSE y + 2^i, LAMBDA y1 :
         Let(t + (y1 - 2^(i - 1)), LAMBDA sum :
             IF debug /\ sum >= 2^bits THEN [y |-> y1, panic |-> TRUE]
             ELSE modular_sqrt_odd_loop(y1, (sum % 2^bits) \div 2, i + 1, e, bits)))
    ELSE Let(t \div 2, LAMBDA t1 : modular_sqrt_odd_loop(y, t1, i + 1, e, bits))

\* [y, panic]
modular_sqrt_odd(x, e, bits) ==
    IF debug /\ x % 2 = 0 THEN [y |-> 0, panic |-> TRUE]
    ELSE IF x = 0 \/ x = 1 THEN [y |-> x, panic |-> FALSE]
    ELSE IF x % 8 # 1 THEN [y |-> 0, panic |-> TRUE]
    ELSE LET first == { i \in {1, 3, 5, 7} : wrapping_mul_uN(i, i, bits) % 32 = x % 32 }
         IN  IF first = {} THEN [y |-> 0, panic |-> TRUE]
             ELSE Let(CHOOSE i \in first : \A j \in first : i <= j, LAMBDA y :
                      modular_sqrt_odd_loop(
                          y, ((wrapping_mul_uN(y, y, bits) - x) % 2^bits) \div 32, 4, e, bits))

\* [sqrts, panic]
RECURSIVE modular_sqrt(_, _, _)
modular_sqrt(x, e, bits) ==
    IF x = 1 THEN [sqrts |-> SQRTS_OF_ONE(bits), panic |-> FALSE]
    ELSE IF ~is_wrapping_square(x) THEN [sqrts |-> <<>>, panic |-> FALSE]
    ELSE IF x % 2 = 0
    THEN LET max == (2^bits - 1) \div 2^(bits - e)
         IN  IF x = 0
             THEN [sqrts |-> step_by(max, 2^((e + 1) \div 2)), panic |-> FALSE]
             ELSE LET tz == tz16(x)
                      valuation == tz \div 2
                      exp0 == e - valuation - 1
                      exp == IF 2 * exp0 < e THEN (exp0 + 1) \div 2 ELSE exp0
                      p_val == 2^valuation
                      p_exp == 2^exp
                  IN  Let(modular_sqrt(x \div 2^tz, bits - valuation, bits), LAMBDA inner :
                      Let(step_by(max, p_exp), LAMBDA offs :
                          [ sqrts |-> dedup(sort_unstable(
                                [ k \in 1..(Len(inner.sqrts) * Len(offs)) |->
                                    (wrapping_mul_uN(inner.sqrts[((k - 1) \div Len(offs)) + 1],
                                                     p_val, bits)
                                     + offs[((k - 1) % Len(offs)) + 1]) % 2^bits ])),
                            panic |-> inner.panic ]))
    ELSE Let(modular_sqrt_odd(x, e, bits), LAMBDA r :
             LET y == IF r.y > 2^(e - 1) THEN wrapping_neg_uN(r.y, bits) ELSE r.y
             IN  [ sqrts |-> dedup(sort_unstable(
                       [ k \in 1..4 |-> wrapping_mul_uN(SQRTS_OF_ONE(bits)[k], y, bits) ])),
                   panic |-> r.panic ])

wrapping_sqrt(x, bits) == modular_sqrt(x, bits, bits)

-----------------------------------------------------------------------------
(* Programs *)

\* Inst::eval_numbers from instruction i on: [numbers, acc]
RECURSIVE eval_numbers_loop(_, _, _, _)
eval_numbers_loop(insts, i, numbers, a) ==
    IF i > Len(insts) THEN [numbers |-> numbers, acc |-> a]
    ELSE IF insts[i] = "O"
    THEN Let(Append(numbers, a), LAMBDA ns : eval_numbers_loop(insts, i + 1, ns, a))
    ELSE Let(apply(a, insts[i]), LAMBDA a1 : eval_numbers_loop(insts, i + 1, numbers, a1))

eval_numbers(insts) == eval_numbers_loop(insts, 1, <<>>, U(0))

\* Builder::push_numbers from number i on: [b, panic]
RECURSIVE push_numbers(_, _, _)
push_numbers(b, numbers, i) ==
    IF i > Len(numbers) THEN [b |-> b, panic |-> FALSE]
    ELSE Let(push_number(b, numbers[i]), LAMBDA r :
             IF r.panic THEN r ELSE push_numbers(r.b, numbers, i + 1))

\* Inst::encode_numbers: <<insts>> or None on a panic
encode_numbers(ir) ==
    Let(push_numbers(Builder_new(U(0)), ir, 1), LAMBDA r :
        IF r.panic THEN None ELSE Some(r.b.insts))

\* Inst::minimize
minimize(insts) ==
    Let(eval_numbers(insts).numbers, LAMBDA numbers : encode_numbers(numbers))

-----------------------------------------------------------------------------
(* BfsEncoder *)

U16_MAX == Limb - 1

\* Vec::clear
vec_clear(v) == <<>>

hash_set_keep(s) == s

\* HashSet::clear
hash_set_clear(s) == {}

\* max_len.try_into().unwrap_or(u16::MAX)
with_bound(n) == IF n <= U16_MAX THEN n ELSE U16_MAX

Node(v, inst, prv, len) == [v |-> v, inst |-> inst, prev |-> prv, len |-> len]

\* the root's prev is usize::MAX, which is never read; it is written -1 here
Root(v) == Node(v, None, 0 - 1, 0)

RECURSIVE path_from_queue_back(_, _, _)
path_from_queue_back(q, idx, path) ==
    IF idx < 0 \/ idx >= Len(q) THEN [panic |-> TRUE, path |-> <<>>]
    ELSE IF q[idx + 1].inst # None
    THEN path_from_queue_back(q, q[idx + 1].prev, path \o q[idx + 1].inst)
    ELSE [panic |-> FALSE, path |-> path]

\* [panic, path]: indexing the arena out of bounds panics
RECURSIVE path_from_queue_loop(_, _, _)
path_from_queue_loop(q, idx, path) ==
    IF idx < 0 \/ idx >= Len(q) THEN [panic |-> TRUE, path |-> <<>>]
    ELSE IF q[idx + 1].inst # None
    THEN path_from_queue_loop(q, q[idx + 1].prev, q[idx + 1].inst \o path)
    ELSE [panic |-> FALSE, path |-> path]

path_from_queue(q, tail) == path_from_queue_loop(q, tail, <<>>)

\* mutation: a node at the bound is expanded too
may_expand_at_bound(node, bound) == node.len <= bound

may_expand_short(node, bound) == node.len + 1 < bound

\* `if node.len < self.max_len`
may_expand(node, bound) == node.len < bound

\* path_len as usize + offset.len(): a length that may pass 2^32, as <<hi, lo>>
\* with lo < 2^16 and hi unbounded
total_len(path_len, offset) ==
    <<abs(offset)[1] + ((abs(offset)[2] + path_len) \div Limb),
      (abs(offset)[2] + path_len) % Limb>>

\* one turn of `for inst in [Inst::I, Inst::D, Inst::S]` for the node at
\* index i; st is [queue, visited, closest]
expand_inst(st, node, i, inst, target) ==
    IF apply(node.v, inst) \in st.visited THEN st
    ELSE Let(apply(node.v, inst), LAMBDA v :
         LET path_len == node.len + 1
             pushed   == Append(st.queue, Node(v, Some(inst), i, path_len))
             i_after  == Len(pushed)
             offset   == offset_to(v, target)
         IN  [ queue   |-> pushed,
               visited |-> st.visited \cup {v},
               closest |->
                   IF inst = "S" /\ offset # None
                   THEN IF /\ st.closest # None
                           /\ Le(st.closest[1].len, total_len(path_len, offset[1]))
                        THEN st.closest
                        ELSE Some([ i      |-> i_after,
                                    offset |-> offset[1],
                                    len    |-> total_len(path_len, offset[1]) ])
                   ELSE st.closest ])

expand(st, node, i, target) ==
    Let(expand_inst(st, node, i, "I", target), LAMBDA st1 :
    Let(expand_inst(st1, node, i, "D", target), LAMBDA st2 :
        expand_inst(st2, node, i, "S", target)))

\* the part of encode after the search: [path, optimal, panic]
Panicked == [path |-> None, optimal |-> FALSE, panic |-> TRUE]

\* `if let Some(i) = zero_index`: [path, panic]
fallback_zero(q, zero, target) ==
    IF zero = None THEN [path |-> None, panic |-> FALSE]
    ELSE Let(path_from_queue(q, zero[1]), LAMBDA zero_path :
         IF zero_path.panic THEN [path |-> None, panic |-> TRUE]
         ELSE Let(heuristic_encode(from_insts(zero_path.path, U(0)), target),
                  LAMBDA r : [path |-> Some(r.b.insts), panic |-> r.panic]))

\* `if let Some((i, offset, _)) = closest_square`, after path1: [path, panic]
fallback_square(q, closest, path1) ==
    IF closest = None THEN [path |-> path1, panic |-> FALSE]
    ELSE Let(path_from_queue(q, closest[1].i), LAMBDA sq_path :
         IF sq_path.panic THEN [path |-> None, panic |-> TRUE]
         ELSE Let(Builder_offset(from_insts(sq_path.path, q[closest[1].i + 1].v),
                                 closest[1].offset),
                  LAMBDA b :
                      [ path  |-> IF path1 # None /\ Len(path1[1]) <= Len(b.insts)
                                  THEN path1 ELSE Some(b.insts),
                        panic |-> FALSE ]))

\* the part of encode after the search: [path, optimal, panic]
fallback(q, zero, closest, target) ==
    Let(fallback_zero(q, zero, target), LAMBDA r1 :
        IF r1.panic THEN Panicked
        ELSE Let(fallback_square(q, closest, r1.path), LAMBDA r2 :
                 IF r2.panic THEN Panicked
                 ELSE [path |-> r2.path, optimal |-> FALSE, panic |-> FALSE]))

\* one turn of `while let Some((i, node)) = self.queue_next()` on the search
\* state s = [queue, index, visited, zero, closest, found]
search_step(s, t, bound) ==
    IF s.found \/ s.index >= Len(s.queue) THEN s
    ELSE Let(s.queue[s.index + 1], LAMBDA node :
         IF node.v = t THEN [s EXCEPT !.index = @ + 1, !.found = TRUE]
         ELSE Let(IF may_expand(node, bound)
                  THEN expand([queue |-> s.queue, visited |-> s.visited,
                               closest |-> s.closest], node, s.index, t)
                  ELSE [queue |-> s.queue, visited |-> s.visited,
                        closest |-> s.closest],
                  LAMBDA st :
                      [ queue   |-> st.queue,
                        index   |-> s.index + 1,
                        visited |-> st.visited,
                        zero    |-> IF node.v = U(0) /\ s.zero = None
                                    THEN Some(s.index) ELSE s.zero,
                        closest |-> st.closest,
                        found   |-> FALSE ]))

\* n turns of the loop, the first half of them and then the rest
RECURSIVE search_steps(_, _, _, _)
search_steps(s, t, bound, n) ==
    IF n <= 0 THEN s
    ELSE IF n = 1 THEN search_step(s, t, bound)
    ELSE Let(search_steps(s, t, bound, n \div 2), LAMBDA mid :
             search_steps(mid, t, bound, n - (n \div 2)))

\* the search state of encode(f, t) on a newly constructed encoder after n
\* nodes are dequeued
fresh_search(f, t, bound, n) ==
    search_steps([ queue |-> <<Root(f)>>, index |-> 0, visited |-> {},
                   zero |-> None, closest |-> None, found |-> FALSE ],
                 t, bound, n)

-----------------------------------------------------------------------------
(* Inputs *)

Landmarks ==
    { U(0), U(16), U(256), <<1, 0>>, <<256, 3>>, <<2047, 65520>>,
      <<32768, 127>>, <<65534, 1>>, U32_MAX }

\* every u32 within Span of a landmark (wrapping around 0 and 2^32 - 1)
RawInputs ==
    UNION { { wrapping_add(c, U(d)) : d \in 0..Span } \cup
            { wrapping_sub(c, U(d)) : d \in 0..Span } : c \in Landmarks }

\* the valid Values among them
Values == { n \in RawInputs : n = normalize(n) }

\* the Values a Builder is created with and asked to encode: those around
\* 0, 256, 2^16 and 2^32 - 1
BuilderLandmarks == { U(0), U(256), <<1, 0>>, U32_MAX }
Near(n, c, span) == Le(wrapping_sub(n, c), U(span)) \/ Le(wrapping_sub(c, n), U(span))

BuilderValues == { n \in Values : \E c \in BuilderLandmarks : Near(n, c, Span) }

\* the Values a search starts from (around 0 and 256) and aims at (around
\* 0, 4, 16 and 256)
Around(cs, span) ==
    { n \in UNION { {wrapping_add(c, U(d)), wrapping_sub(c, U(d))} :
                        c \in cs, d \in 0..span } : n = normalize(n) }

BfsFrom == Around({U(0), U(256)}, BfsSpan)
BfsTo   == Around({U(0), U(4), U(16), U(256)}, BfsSpan)

\* the Offsets compared: magnitudes up to Span, around 2^32 (an Offset is an
\* i64, so From<i64> makes magnitudes past the u32 range) and at 2^46, of
\* either sign; the i64 has one zero
OffsetMags ==
    { U(n) : n \in 0..Span } \cup {U(256), U32_MAX, <<Limb, 0>>, <<Limb, 1>>, <<Limb * 16384, 0>>}
Offsets ==
    { o \in [neg : BOOLEAN, mag : OffsetMags] : ~(o.neg /\ o.mag = U(0)) }

\* the 64 modular square roots of 256: k * 2^27 + 16 and k * 2^27 - 16
SQRTS_OF_256 ==
    UNION { { wrapping_add(<<k * 2048, 0>>, U(16)), wrapping_sub(<<k * 2048, 0>>, U(16)) } :
                k \in 0..31 }

\* the Values brought to 0: those around 0, 16, the range limits of
\* encode_to_0_no_overflow, 2^16, 2^24, 2^32 - 1 and the square roots of 256
ToZeroValues ==
    Around({U(0), U(LOW_16), U(LOW_256), LOW_NEG, <<1, 0>>, <<256, 0>>, U32_MAX}
               \cup SQRTS_OF_256, ZeroSpan)

\* Values of every count of trailing zeros: m * 2^k for k in 0..31
TzValues ==
    { n \in { <<0, m * 2^k>> : m \in {1, 3, 5}, k \in 0..13 } \cup
            { <<(m * 2^k) % Limb, 0>> : m \in {1, 3, 5}, k \in 0..15 } \cup
            { <<1, 2^14>>, <<3, 2^15>>, U(0) } : n = normalize(n) }

\* <<x, bits>>: every u8, and u16 values with no, 4, 8, 64 and 256 roots
SqrtInputs ==
    { <<x, 8>> : x \in 0..255 } \cup
    { <<x, 16>> : x \in {0, 1, 2, 4, 9, 17, 64, 144, 256, 3249, 4096, 16384, 40000, 65535} }

\* the bound the fuzz target searches with
FUZZ_BOUND == 16

-----------------------------------------------------------------------------
(* The machine: a Value made from a raw magnitude, then instructions *)

NoCall == [fn |-> "none", args |-> <<>>, ret |-> <<>>]

IdleMachine ==
    /\ raw = U(0)
    /\ acc = U(0)
    /\ prev = U(0)
    /\ last = "none"
    /\ steps = 0

IdleBuilder ==
    /\ bld = [insts |-> <<>>, acc |-> U(0)]
    /\ b_start = U(0)
    /\ b_calls = <<>>
    /\ b_panic = FALSE

NoResult == [path |-> None, optimal |-> FALSE, panic |-> FALSE]

IdleBfs ==
    /\ queue = <<>>
    /\ index = 0
    /\ visited = {}
    /\ max_len = 0
    /\ from = U(0)
    /\ to = U(0)
    /\ zero_index = None
    /\ closest_square = None
    /\ pc = "idle"
    /\ result = NoResult
    /\ reused = FALSE

InitMachine ==
    /\ debug \in BOOLEAN
    /\ raw \in RawInputs
    /\ acc = ValueFrom(raw)
    /\ prev = acc
    /\ last = "none"
    /\ steps = 0
    /\ call = NoCall
    /\ IdleBuilder
    /\ IdleBfs

Apply(inst) ==
    /\ steps < MaxSteps
    /\ acc' = apply(acc, inst)
    /\ prev' = acc
    /\ last' = inst
    /\ steps' = steps + 1
    /\ UNCHANGED <<debug, raw, call, builder, bfs>>

NextMachine == \E inst \in Inst : Apply(inst)

SpecMachine == InitMachine /\ [][NextMachine]_vars

-----------------------------------------------------------------------------
(* The function harness: one call of a pure function on drawn inputs *)

InitFn ==
    /\ debug \in BOOLEAN
    /\ call = NoCall
    /\ IdleMachine
    /\ IdleBuilder
    /\ IdleBfs

Returns(fn, args, ret) ==
    /\ call = NoCall
    /\ call' = [fn |-> fn, args |-> args, ret |-> ret]
    /\ UNCHANGED <<debug, machine, builder, bfs>>

CallFromChecked == \E n \in RawInputs : Returns("from_checked", <<n>>, from_checked(n))

CallOffsetTo == \E a \in Values, b \in Values : Returns("offset_to", <<a, b>>, offset_to(a, b))

CallSaturatingAdd ==
    \E v \in Values, k \in 0..MaxK :
        Returns("saturating_add", <<v, k>>, saturating_add(v, U(k)))

CallSaturatingSub ==
    \E v \in Values, k \in 0..MaxK :
        Returns("saturating_sub", <<v, k>>, saturating_sub(v, U(k)))

CallCmp == \E a \in Offsets, b \in Offsets : Returns("cmp", <<a, b>>, cmp(a, b))

CallEncodeTo0Overflow ==
    \E v \in TzValues \cup Values :
        Returns("encode_to_0_overflow", <<v>>, encode_to_0_overflow(v))

CallWrappingSqrt ==
    \E in \in SqrtInputs :
        Returns("wrapping_sqrt", in,
                [ sqrts     |-> wrapping_sqrt(in[1], in[2]),
                  is_square |-> is_wrapping_square(in[1]) ])

CallApplyInverse ==
    \E v \in Values, inst \in Inst :
        Returns("apply_inverse", <<v, inst>>, apply_inverse(v, inst))

CallNearestSqrt ==
    \E v \in Values : Returns("nearest_sqrt", <<v>>, nearest_sqrt(v))

CallEncodeTo0 ==
    \E v \in ToZeroValues \cup Values : Returns("encode_to_0", <<v>>, encode_to_0(v))

NextFn ==
    \/ CallFromChecked
    \/ CallOffsetTo
    \/ CallSaturatingAdd
    \/ CallSaturatingSub
    \/ CallCmp
    \/ CallEncodeTo0
    \/ CallNearestSqrt
    \/ CallEncodeTo0Overflow
    \/ CallWrappingSqrt
    \/ CallApplyInverse

SpecFn == InitFn /\ [][NextFn]_vars

-----------------------------------------------------------------------------
(* The Builder: Builder::new(a), then calls *)

\* instruction slices of length at most n
RECURSIVE InstSeqs(_)
InstSeqs(n) ==
    IF n = 0 THEN {<<>>}
    ELSE InstSeqs(n - 1) \cup
         { Append(s, i) : s \in { t \in InstSeqs(n - 1) : Len(t) = n - 1 }, i \in Inst }

\* the instructions heuristic_encode writes from a to v can be written out
Writable(a, v) ==
    \/ encode_from_0(v).panic
    \/ heuristic_plan(a, v).len <= MaxPath

InitBuilder ==
    /\ debug \in BOOLEAN
    /\ call = NoCall
    /\ IdleMachine
    /\ b_start \in BuilderValues
    /\ bld = Builder_new(b_start)
    /\ b_calls = <<>>
    /\ b_panic = FALSE
    /\ IdleBfs

Called(name, arg, nb) ==
    /\ ~b_panic
    /\ Len(b_calls) < MaxCalls
    /\ bld' = nb
    /\ b_calls' = Append(b_calls, <<name, arg>>)
    /\ UNCHANGED <<debug, machine, call, bfs, b_start, b_panic>>

Push == \E inst \in Inst : Called("push", inst, Builder_push(bld, inst))

AppendSlice == \E insts \in InstSeqs(MaxAppend) : Called("append", insts, Builder_append(bld, insts))

OffsetBy == \E n \in (0 - MaxK)..MaxK : Called("offset", n, Builder_offset(bld, Offset(n)))

Add == \E k \in 0..MaxK : Called("add", k, Builder_add(bld, U(k)))

Sub == \E k \in 0..MaxK : Called("sub", k, Builder_sub(bld, U(k)))

Square == \E count \in 0..MaxSquares : Called("square", count, Builder_square(bld, count))

\* numbers are pushed onto a Builder that has only had numbers pushed
PushNumber ==
    \E n \in BuilderValues :
        /\ ~b_panic
        /\ Len(b_calls) < MaxCalls
        /\ \A i \in 1..Len(b_calls) : b_calls[i][1] = "push_number"
        /\ Writable(bld.acc, n)
        /\ \E r \in {push_number(bld, n)} :
               /\ bld' = r.b
               /\ b_panic' = r.panic
        /\ b_calls' = Append(b_calls, <<"push_number", n>>)
        /\ UNCHANGED <<debug, machine, call, bfs, b_start>>

NextBuilder ==
    \/ Push
    \/ AppendSlice
    \/ OffsetBy
    \/ Add
    \/ Sub
    \/ Square
    \/ PushNumber

SpecBuilder == InitBuilder /\ [][NextBuilder]_vars

\* the Values within k instructions of those in S
RECURSIVE ReachWithin(_, _)
ReachWithin(S, k) ==
    IF k = 0 THEN S
    ELSE Let(S \cup { apply(v, i) : v \in S, i \in {"I", "D", "S"} },
             LAMBDA next : ReachWithin(next, k - 1))

\* the searches that find their target within MaxNear levels
NearPairs == { p \in BfsFrom \X BfsTo : p[2] \in ReachWithin({p[1]}, MaxNear) }

-----------------------------------------------------------------------------
(* The program harness: one call of a function of a whole program *)

\* "iisiiiisiiiiiiiio" prints 72; "iiisdssisisssso" prints 65536
LandmarkPrograms ==
    { <<"I", "I", "S", "I", "I", "I", "I", "S", "I", "I", "I", "I", "I", "I", "I", "I", "O">>,
      <<"I", "I", "I", "S", "D", "S", "S", "I", "S", "I", "S", "S", "S", "S", "O">> }

Programs == InstSeqs(MaxProg) \cup LandmarkPrograms

InitProgram ==
    /\ debug \in BOOLEAN
    /\ call = NoCall
    /\ IdleMachine
    /\ IdleBuilder
    /\ IdleBfs

CallMinimize == \E p \in Programs : Returns("minimize", <<p>>, minimize(p))

\* the numbers 0..=255 of one byte
Bytes == { U(n) : n \in 0..255 }

CallEncodeNumber ==
    \E n \in Bytes : Returns("encode_number", <<U(0), n>>, encode_number(U(0), n))

NextProgram == CallMinimize \/ CallEncodeNumber

SpecProgram == InitProgram /\ [][NextProgram]_vars

-----------------------------------------------------------------------------
(* The BfsEncoder: encode calls on one encoder, each step by step *)

\* BfsEncoder::with_bound(bound), with every bound up to MaxBound and with the
\* fuzz target's bound
InitBfs ==
    /\ debug \in BOOLEAN
    /\ call = NoCall
    /\ IdleMachine
    /\ IdleBuilder
    /\ queue = <<>>
    /\ index = 0
    /\ visited = {}
    /\ max_len \in { with_bound(bound) : bound \in (0..MaxBound) \cup {FUZZ_BOUND} }
    /\ from = U(0)
    /\ to = U(0)
    /\ zero_index = None
    /\ closest_square = None
    /\ pc = "idle"
    /\ result = NoResult
    /\ reused = FALSE

\* the start of encode(f, t), on a new encoder or one that has returned: the
\* scratch state is cleared and the root pushed.  An encoder with the fuzz
\* target's bound is asked for the targets near enough for its search to end
\* within MaxNear levels.  Every target of BfsTo has a short heuristic path
\* from 0.
Encode ==
    \E f \in BfsFrom, t \in BfsTo :
        /\ pc \in {"idle", "done"}
        /\ max_len > MaxBound => <<f, t>> \in NearPairs
        /\ from' = f
        /\ to' = t
        /\ queue' = Append(vec_clear(queue), Root(f))
        /\ index' = 0
        /\ visited' = hash_set_clear(visited)
        /\ zero_index' = None
        /\ closest_square' = None
        /\ pc' = "loop"
        /\ result' = NoResult
        /\ reused' = (pc = "done")
        /\ UNCHANGED <<debug, machine, call, builder, max_len>>

\* the dequeued node holds the target
Found ==
    /\ pc = "loop"
    /\ index < Len(queue)
    /\ queue[index + 1].v = to
    /\ index' = index + 1
    /\ result' = [ path    |-> Some(path_from_queue(queue, index).path),
                   optimal |-> TRUE,
                   panic   |-> FALSE ]
    /\ pc' = "done"
    /\ UNCHANGED <<debug, machine, call, builder, reused, queue, visited, max_len, from, to,
                   zero_index, closest_square>>

\* the dequeued node does not: track 0 and expand it
Visit ==
    /\ pc = "loop"
    /\ index < Len(queue)
    /\ queue[index + 1].v # to
    /\ index' = index + 1
    /\ zero_index' = IF queue[index + 1].v = U(0) /\ zero_index = None
                     THEN Some(index) ELSE zero_index
    /\ \E st \in { IF may_expand(queue[index + 1], max_len)
                     THEN expand([queue |-> queue, visited |-> visited,
                                  closest |-> closest_square],
                                 queue[index + 1], index, to)
                     ELSE [queue |-> queue, visited |-> visited,
                           closest |-> closest_square] } :
           /\ queue' = st.queue
           /\ visited' = st.visited
           /\ closest_square' = st.closest
    /\ UNCHANGED <<debug, machine, call, builder, reused, max_len, from, to, pc, result>>

\* the queue is drained: fall back.  The step is taken when the offset from
\* the closest square can be written out.
Fallback ==
    /\ pc = "loop"
    /\ index >= Len(queue)
    /\ closest_square # None =>
           /\ FitsInt(abs(closest_square[1].offset))
           /\ ToInt(abs(closest_square[1].offset)) <= MaxPath
    /\ result' = fallback(queue, zero_index, closest_square, to)
    /\ pc' = "done"
    /\ UNCHANGED <<debug, machine, call, builder, reused, queue, index, visited, max_len,
                   from, to, zero_index, closest_square>>

NextBfs ==
    \/ Encode
    \/ Found
    \/ Visit
    \/ Fallback

SpecBfs == InitBfs /\ [][NextBfs]_vars

\* a call that has started runs on: the loop and the fallback are code of
\* encode itself, while the next call is up to the caller
LiveBfs ==
    SpecBfs /\ WF_vars(Found) /\ WF_vars(Visit) /\ WF_vars(Fallback)

-----------------------------------------------------------------------------
(* Claims about the Value arithmetic *)

\* C6: a Value made from any u32 magnitude, and the accumulator after any
\* sequence of instructions applied to it, is never 256 and never all-ones.
C6_NormalizationInvariant == acc # U(256) /\ acc # U32_MAX

\* an Increment from 255 has been normalized to 0
C6_Witness == last = "I" /\ prev = U(255) /\ acc = U(0)

\* the accumulators after 1, 2, ... k repetitions of inst from v
Run(v, inst, k) == [j \in 1..k |-> eval(Repeat(inst, j), v)]

C9_OffsetSides ==
    call.fn = "offset_to" =>
        LET a == call.args[1]
            b == call.args[2]
            opposite == \/ (Lt(a, U(256)) /\ Le(U(256), b))
                        \/ (Le(U(256), a) /\ Lt(b, U(256)))
        IN  /\ (call.ret = None) <=> opposite
            /\ ~opposite =>
                   /\ Len(call.ret) = 1
                   /\ LET o == call.ret[1]
                      IN  IF o.neg
                          THEN Lt(b, a) /\ wrapping_add(b, o.mag) = a
                          ELSE Le(a, b) /\ wrapping_add(a, o.mag) = b

\* 255 and 257 are on opposite sides, 257 and 300 are not
C9_Witness ==
    /\ call.fn = "offset_to"
    /\ call.args = <<U(255), U(257)>>
    /\ call.ret = None

\* C10: from_checked(n) is None exactly for n = 256 and n = all-ones, and
\* Some(n) with n unchanged otherwise.
C10_FromChecked ==
    call.fn = "from_checked" =>
        LET n == call.args[1]
        IN  IF n = U(256) \/ n = U32_MAX
            THEN call.ret = None
            ELSE call.ret = Some(n)

\* 256 has been rejected
C10_Witness == call.fn = "from_checked" /\ call.args = <<U(256)>> /\ call.ret = None

\* C11: comparing Offsets is a total order: a.cmp(b) is Equal exactly when
\* a = b, b.cmp(a) is its reverse, it is transitive over every third Offset,
\* it puts the smaller magnitude first, and for a magnitude k > 0 it puts +k
\* before -k.
C11_OffsetOrder ==
    call.fn = "cmp" =>
        LET a == call.args[1]
            b == call.args[2]
        IN  /\ call.ret \in {"Less", "Equal", "Greater"}
            /\ (call.ret = "Equal") <=> (a = b)
            /\ (call.ret = "Less") <=> (cmp(b, a) = "Greater")
            /\ \A c \in Offsets :
                   (call.ret = "Less" /\ cmp(b, c) = "Less") => cmp(a, c) = "Less"
            /\ Lt(abs(a), abs(b)) => call.ret = "Less"
            /\ (abs(a) = abs(b) /\ ~is_negative(a) /\ is_negative(b)) => call.ret = "Less"

\* +256 compared with -256 came out Less
C11_Witness ==
    /\ call.fn = "cmp"
    /\ call.args = <<[neg |-> FALSE, mag |-> U(256)], [neg |-> TRUE, mag |-> U(256)]>>
    /\ call.ret = "Less"

-----------------------------------------------------------------------------
(* Claims about the Builder and the heuristic synthesizer *)

OnlyNumbersPushed ==
    /\ b_calls # <<>>
    /\ \A i \in 1..Len(b_calls) : b_calls[i][1] = "push_number"

\* C1, as stated: after Builder::new(from).push_number(v) nothing has panicked,
\* the instructions written evaluate from `from` to exactly v, and the tracked
\* accumulator is v.  The code does not satisfy this.
C1_HeuristicCorrect ==
    OnlyNumbersPushed =>
        /\ ~b_panic
        /\ eval(bld.insts, b_start) = b_calls[Len(b_calls)][2]
        /\ bld.acc = b_calls[Len(b_calls)][2]

\* C8, as stated: after any push, append, offset, add, sub and square calls on
\* Builder::new(a), acc() equals Inst::eval(insts(), a).  The code does not
\* satisfy this.
C8_ReplayInvariant ==
    (\A i \in 1..Len(b_calls) : b_calls[i][1] # "push_number") =>
        bld.acc = eval(bld.insts, b_start)

-----------------------------------------------------------------------------
(* Claims about the BfsEncoder *)

\* Some(the least k <= bound with t within k instructions of S), or None
RECURSIVE Distance(_, _, _, _)
Distance(S, t, k, bound) ==
    IF t \in S THEN Some(k)
    ELSE IF k >= bound THEN None
    ELSE Distance(ReachWithin(S, 1), t, k + 1, bound)

OnlySteps(path) == \A k \in 1..Len(path) : path[k] \in {"I", "D", "S"}

C3_RoundTrip ==
    (pc = "done" /\ result.path # None) => eval(result.path[1], from) = to

C5_Agreement ==
    (pc = "done" /\ max_len = FUZZ_BOUND /\ result.optimal) =>
        /\ encode_number(from, to) # None
        /\ Len(result.path[1]) + 1 = Len(encode_number(from, to)[1])

\* C12, as stated: a finished encode(from, to) whose target is not within
\* max_len instructions of from has returned with is_optimal = false, and
\* is_optimal = true is returned only when the dequeued node holds the target.
\* The code does not satisfy this: the call may panic instead of returning.
C12_Degraded ==
    pc = "done" =>
        /\ Distance({from}, to, 0, max_len) = None =>
               (~result.panic /\ ~result.optimal)
        /\ result.optimal => (index >= 1 /\ queue[index].v = to)

\* C13: a call of encode on an encoder that has already answered other calls
\* starts from the root alone, index 0 and an empty visited set, and ends in
\* the search state and with the result of the same call on a newly
\* constructed encoder with the same bound.
C13_HistoryIndependent ==
    /\ (pc = "loop" /\ index = 0) => (queue = <<Root(from)>> /\ visited = {})
    /\ pc = "done" =>
           LET s == fresh_search(from, to, max_len, index)
           IN  /\ queue = s.queue
               /\ index = s.index
               /\ visited = s.visited
               /\ zero_index = s.zero
               /\ closest_square = s.closest
               /\ result = IF s.found
                           THEN [ path    |-> Some(path_from_queue(s.queue, s.index - 1).path),
                                  optimal |-> TRUE,
                                  panic   |-> FALSE ]
                           ELSE fallback(s.queue, s.zero, s.closest, to)

\* a later call on a used encoder has returned the fallback path from 2 to 6
C13_Witness ==
    /\ pc = "done"
    /\ reused
    /\ from = U(2)
    /\ to = U(6)
    /\ max_len = 2
    /\ result.path = Some(<<"I", "D", "I", "I">>)

-----------------------------------------------------------------------------
(* Claims about whole programs *)

\* C14, as stated: Inst::minimize(p) returns a program that prints the same
\* numbers as p.  The code does not satisfy this.
C14_MinimizePreserves ==
    call.fn = "minimize" =>
        /\ call.ret # None
        /\ eval_numbers(call.ret[1]).numbers = eval_numbers(call.args[1]).numbers

\* a path from 0 to 249 through squares that wrap around 2^32:
\* iissdddsiiiiiisisdsiisisdsiis, 29 instructions
WrappingPaths ==
    { <<"I", "I", "S", "S", "D", "D", "D", "S", "I", "I", "I", "I", "I", "I", "S", "I", "S", "D", "S", "I", "I", "S", "I", "S", "D", "S", "I", "I", "S">> }

\* C15, as stated: Inst::encode_number(0, n) for n in 0..=255 ends with its
\* one Output, and its Increment/Decrement/Square instructions are a shortest
\* path from 0 to n: they reach n, no exhaustive search within MaxDist steps
\* finds a shorter distance, and no known path is shorter.  The code does not
\* satisfy this.
C15_ShortestFrom0 ==
    call.fn = "encode_number" =>
        /\ call.ret # None
        /\ LET p == call.ret[1]
               body == SubSeq(p, 1, Len(p) - 1)
               n == call.args[2]
               d == Distance({call.args[1]}, n, 0, MaxDist)
           IN  /\ Len(p) >= 1
               /\ p[Len(p)] = "O"
               /\ OnlySteps(body)
               /\ eval(body, call.args[1]) = n
               /\ d # None => Len(body) = d[1]
               /\ \A q \in WrappingPaths :
                      eval(q, call.args[1]) = n => Len(body) <= Len(q)

-----------------------------------------------------------------------------
(* Claims about the heuristic's way to 0 *)

\* offset, then squares Squares: the instructions that encode_to_0 stands for
ToZeroPath(offset, squares) ==
    Repeat(IF offset.neg THEN "D" ELSE "I", ToInt(offset.mag)) \o Repeat("S", squares)

\* C16, as stated: encode_to_0(v) = (offset, squares) is a way from v to 0
\* whose length offset.len() + squares is the least number of
\* Increment/Decrement/Square instructions that take v to 0, and no way of
\* that length made of an offset and then squares has fewer squares.  The
\* code does not satisfy this.
C16_ShortestTo0 ==
    call.fn = "encode_to_0" =>
        LET v == call.args[1]
            offset == call.ret[1]
            squares == call.ret[2]
            len == ToInt(abs(offset)) + squares
        IN  /\ eval(ToZeroPath(offset, squares), v) = U(0)
            /\ Distance({v}, U(0), 0, MaxDist) = Some(len)
            /\ \A s \in 0..(squares - 1), neg \in BOOLEAN :
                   eval(ToZeroPath([neg |-> neg, mag |-> U(len - s)], s), v) # U(0)

\* C17: for every n with n * n mod 2^32 = 256 (16 among them),
\* encode_to_0(Value::from(n)) is (Offset(0), 1): no offset, one square.  The
\* 64 roots listed by the sqrts_of_256 test are such n and are all tried.
C17_SqrtsOf256 ==
    /\ \A n \in SQRTS_OF_256 : wrapping_mul(n, n) = U(256) /\ n \in ToZeroValues
    /\ (call.fn = "encode_to_0" /\ wrapping_mul(call.args[1], call.args[1]) = U(256)) =>
           /\ call.args[1] \in SQRTS_OF_256
           /\ call.ret = <<Offset(0), 1>>

\* encode_to_0(2^27 - 16) has returned no offset and one square
C17_Witness ==
    /\ call.fn = "encode_to_0"
    /\ call.args = << <<2047, 65520>> >>
    /\ wrapping_mul(call.args[1], call.args[1]) = U(256)
    /\ call.ret = <<Offset(0), 1>>

-----------------------------------------------------------------------------
(* Claims about nearest_sqrt *)

\* r is the floor, or the ceiling, of the real square root of v (r < 2^16)
IsFloorSqrt(r, v) ==
    /\ Le(Mul16(r, r), v)
    /\ (r + 1 = Limb \/ Lt(v, Mul16(r + 1, r + 1)))
IsCeilSqrt(r, v) ==
    /\ Le(v, Mul16(r, r))
    /\ (r = 0 \/ Lt(Mul16(r - 1, r - 1), v))

\* C18, as stated: nearest_sqrt(v) returns, for every valid Value v, a root
\* r and an Offset o with r * r + o = v in unbounded integers, r the floor
\* or the ceiling of the square root of v, r # 16 and r # 65536.  The code
\* does not satisfy this: a debug build does not return for every v.
C18_NearestSqrt ==
    call.fn = "nearest_sqrt" =>
        LET v == call.args[1]
            root == call.ret.root
            o == call.ret.offset
        IN  /\ ~call.ret.panic
            /\ root # U(16)
            /\ root # U(Limb)
            /\ Lt(root, U(Limb))
            /\ LET r  == ToInt(root)
                   rr == Mul16(r, r)
               IN  /\ IsFloorSqrt(r, v) \/ IsCeilSqrt(r, v)
                   /\ IF o.neg
                      THEN Le(o.mag, rr) /\ wrapping_sub(rr, o.mag) = v
                      ELSE ~add_overflows(rr, o.mag) /\ wrapping_add(rr, o.mag) = v

-----------------------------------------------------------------------------
(* Claims about trailing zeros *)

\* squaring n doubles its trailing zeros, up to 32
Doubles(n) ==
    LET tz == trailing_zeros(n)
    IN  trailing_zeros(wrapping_mul(n, n)) = IF 2 * tz < 32 THEN 2 * tz ELSE 32

\* n, n^2, n^4, ...: count squarings
RECURSIVE SquareChain(_, _)
SquareChain(n, count) ==
    IF count = 0 THEN <<n>> ELSE <<n>> \o SquareChain(wrapping_mul(n, n), count - 1)

\* C19: the trailing zeros of n * n mod 2^32 are min(2 * trailing_zeros(n),
\* 32), for the argument of encode_to_0_overflow, the value it offsets to
\* and each of its squares, and for 256 and 2^32 - 1; and the square count
\* it computes for a value with at least 1 trailing zero that is no square
\* root of 256 is the least number of squarings that reaches 0 mod 2^32.
C19_TrailingZeroDoubling ==
    /\ Doubles(U(256)) /\ Doubles(U32_MAX)
    /\ call.fn = "encode_to_0_overflow" =>
           LET v == call.args[1]
               offset == call.ret[1]
               squares == call.ret[2]
               v1 == IF trailing_zeros(v) < 2 THEN add_offset(v, offset) ELSE v
               chain == SquareChain(v1, MaxSquarings)
           IN  /\ Doubles(v)
               /\ \A k \in 1..Len(chain) : Doubles(chain[k])
               /\ trailing_zeros(v1) >= 1
               /\ wrapping_mul(v1, v1) # U(256) =>
                      /\ squares <= MaxSquarings
                      /\ chain[squares + 1] = U(0)
                      /\ \A k \in 1..squares : chain[k] # U(0)

\* encode_to_0_overflow(24): 3 trailing zeros take 4 squares, and 3 leave
\* 24 trailing zeros
C19_Witness ==
    /\ call.fn = "encode_to_0_overflow"
    /\ call.args = <<U(24)>>
    /\ call.ret = <<Offset(0), 4>>
    /\ SquareChain(U(24), 4)[4] # U(0)
    /\ SquareChain(U(24), 4)[5] = U(0)

-----------------------------------------------------------------------------
(* Claims about wrapping square roots *)

\* every y of the width whose wrapping square is x
AllSqrts(x, bits) == { y \in 0..(2^bits - 1) : wrapping_mul_uN(y, y, bits) = x }

\* C20: wrapping_sqrt(x) returns, without a panic, exactly the y of the
\* width with y.wrapping_mul(y) = x, ascending and without duplicates, and
\* is_wrapping_square(x) is true exactly when there is such a y.
C20_WrappingSqrt ==
    call.fn = "wrapping_sqrt" =>
        Let(AllSqrts(call.args[1], call.args[2]), LAMBDA all :
            LET sqrts == call.ret.sqrts.sqrts
            IN  /\ ~call.ret.sqrts.panic
                /\ { sqrts[k] : k \in 1..Len(sqrts) } = all
                /\ \A k \in 1..(Len(sqrts) - 1) : sqrts[k] < sqrts[k + 1]
                /\ call.ret.is_square = (all # {}))

\* wrapping_sqrt(64u8) has returned its 16 roots, of which 8 is the least
C20_Witness ==
    /\ call.fn = "wrapping_sqrt"
    /\ call.args = <<64, 8>>
    /\ Len(call.ret.sqrts.sqrts) = 16
    /\ call.ret.sqrts.sqrts[1] = 8
    /\ call.ret.is_square

-----------------------------------------------------------------------------
(* Claims about the arena of the search *)

\* C21: in every state of an encode call each arena node has a length of at
\* most max_len, which fits a u16; each node but the root has an earlier
\* node as predecessor and its length plus one; and the step that dequeues
\* a node whose length has reached max_len pushes nothing.
C21_BoundEnforced ==
    /\ [](/\ max_len <= U16_MAX
          /\ \A k \in 1..Len(queue) :
                 /\ queue[k].len <= max_len
                 /\ queue[k].len <= U16_MAX
                 /\ IF k = 1 THEN queue[k].inst = None /\ queue[k].len = 0
                    ELSE /\ queue[k].inst # None
                         /\ queue[k].prev \in 0..(k - 2)
                         /\ queue[k].len = queue[queue[k].prev + 1].len + 1)
    /\ [][(pc = "loop" /\ index < Len(queue) /\ index' = index + 1
              /\ queue[index + 1].len >= max_len) => queue' = queue]_vars

\* a node at the bound 2 has been dequeued, it was not the target, and no
\* node has it as predecessor
C21_Witness ==
    /\ pc = "loop"
    /\ max_len = 2
    /\ index >= 1
    /\ queue[index].len = max_len
    /\ queue[index].v # to
    /\ \A k \in 2..Len(queue) : queue[k].prev # index - 1

-----------------------------------------------------------------------------
(* Claims about Builder::square and Builder::offset *)

\* the sum of the counts of the calls made
RECURSIVE SumCounts(_)
SumCounts(calls) ==
    IF calls = <<>> THEN 0 ELSE Head(calls)[2] + SumCounts(Tail(calls))

\* C22: after Builder::new(a) has only had square(count) calls, the
\* instructions written are that many Squares and the tracked accumulator,
\* which square_repeat computed with its early stop at 0, is what applying
\* them one by one to a gives.
C22_SquareRepeat ==
    (b_calls # <<>> /\ \A i \in 1..Len(b_calls) : b_calls[i][1] = "square") =>
        /\ bld.insts = Repeat("S", SumCounts(b_calls))
        /\ bld.acc = eval(bld.insts, b_start)
        /\ Len(b_calls) = 1 => bld.acc = square_repeat(b_start, b_calls[1][2])

\* square(3) on 65536, which the first Square takes to 0, where square_repeat
\* stops
C22_Witness ==
    /\ b_calls = << <<"square", 3>> >>
    /\ b_start = <<1, 0>>
    /\ bld.insts = <<"S", "S", "S">>
    /\ bld.acc = U(0)
    /\ square(b_start) = U(0)

-----------------------------------------------------------------------------
(* Claims about apply_inverse *)

\* C23: whenever apply_inverse(v, inst) returns Some(u), u is a valid Value
\* and apply(u, inst) = v; for Square it returns None whenever v is no
\* perfect square (the floor of its square root does not square to v); for
\* Output and Blank it returns Some(v).
C23_ApplyInverseSound ==
    call.fn = "apply_inverse" =>
        LET v == call.args[1]
            inst == call.args[2]
        IN  /\ call.ret # None =>
                   /\ call.ret[1] = normalize(call.ret[1])
                   /\ apply(call.ret[1], inst) = v
            /\ inst = "S" =>
                   \E f \in {sqrt_floor(v)} :
                       /\ IsFloorSqrt(f, v)
                       /\ Mul16(f, f) # v => call.ret = None
            /\ inst \in {"O", "Blank"} => call.ret = Some(v)

\* apply_inverse(16, Square) has returned Some(4)
C23_Witness ==
    /\ call.fn = "apply_inverse"
    /\ call.args = <<U(16), "S">>
    /\ call.ret = Some(U(4))
    /\ apply(U(4), "S") = U(16)

-----------------------------------------------------------------------------
(* More claims about nearest_sqrt *)

\* C24, as stated: the root that nearest_sqrt(v) returns for a valid Value v
\* is a valid Value: it is returned, and it is neither 256 nor 2^32 - 1.  The
\* code does not satisfy this.
C24_RootIsValue ==
    call.fn = "nearest_sqrt" =>
        /\ ~call.ret.panic
        /\ call.ret.root # U(256)
        /\ call.ret.root # U32_MAX
        /\ call.ret.root = normalize(call.ret.root)

\* C25, as stated: in nearest_sqrt(v) the u32 computations floor * floor,
\* ceil * ceil, v - floor * floor and ceil * ceil - v neither overflow nor
\* underflow.  The code does not satisfy this.
C25_NoOverflow ==
    call.fn = "nearest_sqrt" =>
        \E floor \in {U(sqrt_floor(call.args[1]))}, ceil \in {U(sqrt_ceil(call.args[1]))} :
            /\ ~mul_overflows(floor, floor)
            /\ ~mul_overflows(ceil, ceil)
            /\ Le(wrapping_mul(floor, floor), call.args[1])
            /\ Le(call.args[1], wrapping_mul(ceil, ceil))

-----------------------------------------------------------------------------
(* More claims about the arena of the search *)

\* C26, as stated: while encode holds closest_square = (i, offset, len), i is
\* an index into the arena, the node at i was produced by a Square, and
\* offset is that node's v.offset_to(to); and no encode call has panicked.
\* The code does not satisfy this.
C26_ClosestSquareRecord ==
    /\ closest_square # None =>
           /\ closest_square[1].i \in 0..(Len(queue) - 1)
           /\ queue[closest_square[1].i + 1].inst = Some("S")
           /\ offset_to(queue[closest_square[1].i + 1].v, to) = Some(closest_square[1].offset)
    /\ pc = "done" => ~result.panic

\* C27, as stated: during an encode call no two arena nodes hold the same
\* Value, the root's included.  The code does not satisfy this.
C27_NoDuplicateValues ==
    \A j \in 1..Len(queue), k \in 1..Len(queue) :
        j # k => queue[j].v # queue[k].v

\* C28: when offset_to(a, b) = Some(o) for valid Values a and b, offset(o) on
\* Builder::new(a) writes exactly |o| Increments (o >= 0) or Decrements
\* (o < 0); the raw values a + 1, a + 2, ... (or a - 1, ...) they step
\* through are never 256 or 2^32 - 1; they evaluate from a to b; and the
\* tracked accumulator is b.
C28_OffsetRoundTrip ==
    (Len(b_calls) = 1 /\ b_calls[1][1] = "offset") =>
        LET n == b_calls[1][2]
            k == IF n < 0 THEN 0 - n ELSE n
            a == b_start
            raw_at(j) == IF n < 0 THEN wrapping_sub(a, U(j)) ELSE wrapping_add(a, U(j))
            b == raw_at(k)
        IN  (/\ IF n < 0 THEN Le(U(k), a) ELSE ~add_overflows(a, U(k))
             /\ b = normalize(b)
             /\ offset_to(a, b) = Some(Offset(n)))
            => /\ bld.insts = Repeat(IF n < 0 THEN "D" ELSE "I", k)
               /\ \A j \in 1..k : raw_at(j) # U(256) /\ raw_at(j) # U32_MAX
               /\ eval(bld.insts, a) = b
               /\ bld.acc = b

\* offset(offset_to(259, 257)) = offset(-2) on Builder::new(259) has written
\* two Decrements and tracks 257
C28_Witness ==
    /\ b_start = U(259)
    /\ b_calls = << <<"offset", 0 - 2>> >>
    /\ offset_to(U(259), U(257)) = Some(Offset(0 - 2))
    /\ bld.insts = <<"D", "D">>
    /\ bld.acc = U(257)

-----------------------------------------------------------------------------
(* More claims about the heuristic's way to 0 *)

\* C29: for encode_to_0(v) = (offset, squares), |offset| Increments or
\* Decrements (by sign) and then squares Squares, applied one by one to v,
\* end at 0; and the offset that encode_to_0_overflow chooses has a magnitude
\* of at most 3.
C29_ValidPathTo0 ==
    /\ call.fn = "encode_to_0" =>
           /\ FitsInt(abs(call.ret[1]))
           /\ eval(ToZeroPath(call.ret[1], call.ret[2]), call.args[1]) = U(0)
    /\ call.fn = "encode_to_0_overflow" => Le(abs(call.ret[1]), U(3))

\* encode_to_0(2^32 - 2) has returned (Offset(1), 0), where the overflow
\* strategy offers (Offset(2), 0), which ends at 1
C29_Witness ==
    /\ call.fn = "encode_to_0"
    /\ call.args = << <<Limb - 1, Limb - 2>> >>
    /\ call.ret = <<Offset(1), 0>>
    /\ encode_to_0_overflow(call.args[1]) = <<Offset(2), 0>>
    /\ eval(<<"I", "I">>, call.args[1]) = U(1)

\* the queue is drained and the path of the fallback is longer than MaxPath
PathTooLong ==
    /\ pc = "loop"
    /\ index >= Len(queue)
    /\ closest_square # None
    /\ ~(/\ FitsInt(abs(closest_square[1].offset))
         /\ ToInt(abs(closest_square[1].offset)) <= MaxPath)

\* C30, as stated: every encode call returns.  Each turn of its loop moves
\* the read index up by one; the arena holds at most one node for each
\* distinct Value and the root; each predecessor index is smaller than the
\* node's own; the root of a target of at least 4 is smaller than the target,
\* which is what ends encode_from_0; and a call that has started comes to
\* return a result.  The code does not satisfy this: a call may panic.
C30_Terminates ==
    /\ [][(pc = "loop" /\ pc' = "loop") => index' = index + 1]_vars
    /\ [](/\ index <= Len(queue)
          /\ Len(queue) <= Cardinality({ queue[k].v : k \in 1..Len(queue) }) + 1
          /\ \A k \in 2..Len(queue) : queue[k].prev < k - 1
          /\ Le(U(4), to) => Lt(nearest_sqrt(to).root, to))
    /\ (pc = "loop") ~> ((pc = "done" /\ ~result.panic) \/ PathTooLong)

====
